---- MODULE Spec2Model ----
(***************************************************************************)
(* Missed Homework Report Generator (src/e2w.py).                          *)
(*                                                                         *)
(* The extractor generate_missed_homework_report, the mail-merge projector *)
(* build_mail_merge_dataframe, the document renderer                       *)
(* build_word_report_bytes and the CSV export of main() are modelled as    *)
(* operators computed the way the code computes them; main() is the state  *)
(* machine that calls them in order on one uploaded dataset.               *)
(*                                                                         *)
(* A Python str is a sequence of one-character strings.  A DataFrame cell  *)
(* is a tagged value: the missing marker NaN, a number, or a text.         *)
(***************************************************************************)
EXTENDS Integers, Sequences, FiniteSets, TLC

(***************************************************************************)
(* Bounds of the model.                                                    *)
(***************************************************************************)
\* largest number of rows of a dataset whose score cells vary
MaxRows == 3
\* largest number of rows of a dataset whose identity cells vary
MaxNameRows == 1
\* largest scores_start_index tried (the widest dataset has 6 columns)
MaxStart == 7
\* number of times the script is run on the same upload
MaxRuns == 2

(***************************************************************************)
(* The state of one browser session of main() (lines 112-228).             *)
(***************************************************************************)
VARIABLES
    uploaded,   \* the uploaded file: a spreadsheet, or one that cannot be decoded
    cfg,        \* the sidebar's column names and scores_start_index
    title,      \* the sidebar's report title
    pc,         \* the position of the running script in main()
    run,        \* the number of the current run of the script
    df,         \* the DataFrame read from the upload
    outcome,    \* what generate_missed_homework_report returned or raised
    previous,   \* its outcome in the previous run of the script
    messages,   \* the st.error messages shown
    docx,       \* the blocks of the Word report offered for download
    mail,       \* what build_mail_merge_dataframe returned or raised
    csv         \* the bytes of the mail-merge CSV offered for download

vars ==
    << uploaded, cfg, title, pc, run, df, outcome, previous, messages, docx, mail, csv >>

(***************************************************************************)
(* Python str operations used by the code.                                 *)
(***************************************************************************)
\* str.strip() and str.split() with no argument work on whitespace
Whitespace == {" ", "\t", "\n", "\r"}

RECURSIVE LStrip(_)
LStrip(s) ==
    IF s = <<>> THEN s
    ELSE IF Head(s) \in Whitespace THEN LStrip(Tail(s)) ELSE s

RECURSIVE RStrip(_)
RStrip(s) ==
    IF s = <<>> THEN s
    ELSE IF s[Len(s)] \in Whitespace THEN RStrip(SubSeq(s, 1, Len(s) - 1)) ELSE s

\* str.strip()
Strip(s) == RStrip(LStrip(s))

\* str.split(): the maximal runs of non-whitespace characters, in order
RECURSIVE SplitFrom(_, _, _)
SplitFrom(s, cur, acc) ==
    IF s = <<>> THEN (IF cur = <<>> THEN acc ELSE Append(acc, cur))
    ELSE IF Head(s) \in Whitespace
         THEN SplitFrom(Tail(s), <<>>, IF cur = <<>> THEN acc ELSE Append(acc, cur))
         ELSE SplitFrom(Tail(s), Append(cur, Head(s)), acc)

Split(s) == SplitFrom(s, <<>>, <<>>)

\* sep.join(parts)
RECURSIVE Join(_, _)
Join(parts, sep) ==
    IF parts = <<>> THEN <<>>
    ELSE IF Len(parts) = 1 THEN parts[1]
    ELSE parts[1] \o sep \o Join(Tail(parts), sep)

\* the characters of the model in code-point order
CodePoints ==
    << "\t", "\n", "\r", " ", "\"", ",", ".", "0", "1", "2", "3", "4", "5", "6",
       "7", "8", "9", "@", "A", "B", "E", "F", "G", "H", "L", "M", "N", "R", "W",
       "a", "c", "d", "e", "i", "k", "l", "m", "n", "o", "p", "r", "s", "t", "u", "w" >>

Ord(c) == CHOOSE i \in 1..Len(CodePoints) : CodePoints[i] = c

\* a < b for Python strings (lexicographic by code point)
RECURSIVE StrLess(_, _)
StrLess(a, b) ==
    IF b = <<>> THEN FALSE
    ELSE IF a = <<>> THEN TRUE
    ELSE IF Head(a) = Head(b) THEN StrLess(Tail(a), Tail(b))
    ELSE Ord(Head(a)) < Ord(Head(b))

\* sorted(set of str)
RECURSIVE Sorted(_)
Sorted(S) ==
    IF S = {} THEN <<>>
    ELSE LET m == CHOOSE x \in S : \A y \in S \ {x} : StrLess(x, y)
         IN  <<m>> \o Sorted(S \ {m})

\* str(n) of a non-negative int
RECURSIVE Digits(_)
Digits(n) ==
    LET d == <<"0", "1", "2", "3", "4", "5", "6", "7", "8", "9">>[(n % 10) + 1]
    IN  IF n < 10 THEN <<d>> ELSE Append(Digits(n \div 10), d)

(***************************************************************************)
(* DataFrame cells.                                                        *)
(***************************************************************************)
NaN == [t |-> "nan", n |-> 0, s |-> <<>>]
Num(k) == [t |-> "num", n |-> k, s |-> <<>>]
Txt(str) == [t |-> "str", n |-> 0, s |-> str]

\* str(value): a missing cell is the float nan, which prints as "nan"
Str(v) ==
    CASE v.t = "nan" -> <<"n", "a", "n">>
      [] v.t = "num" -> Digits(v.n)
      [] OTHER -> v.s

\* pd.notna(val)
notna(v) == v.t # "nan"

\* val == 0: true of a number equal to zero, false of nan and of any text
EqZero(v) == v.t = "num" /\ v.n = 0

Range(f) == {f[i] : i \in DOMAIN f}

(***************************************************************************)
(* Column names and configuration (the defaults of lines 25-29, 119-134).  *)
(***************************************************************************)
FirstNameCol == <<"F", "i", "r", "s", "t", " ", "N", "a", "m", "e">>
LastNameCol == <<"L", "a", "s", "t", " ", "N", "a", "m", "e">>
GroupCol == <<"G", "r", "o", "u", "p">>
EmailCol == <<"E", "m", "a", "i", "l">>
HW1 == <<"H", "W", "1">>
HW2 == <<"H", "W", "2">>

IdentityCols == <<FirstNameCol, LastNameCol, GroupCol, EmailCol>>
HomeworkCols == <<HW1, HW2>>

Config(start) ==
    [ first_name_col |-> FirstNameCol, last_name_col |-> LastNameCol,
      group_col |-> GroupCol, email_col |-> EmailCol,
      scores_start_index |-> start ]

DefaultTitle ==
    << "M", "i", "s", "s", "e", "d", " ", "H", "o", "m", "e", "w", "o", "r", "k",
       " ", "R", "e", "p", "o", "r", "t" >>

(***************************************************************************)
(* generate_missed_homework_report (lines 23-86).                          *)
(***************************************************************************)
\* the outcome of a call: the returned list, or the ValueError raised
Returned(recs) == [ok |-> TRUE, records |-> recs, error |-> "", detail |-> <<>>]
Raised(what, text) == [ok |-> FALSE, records |-> <<>>, error |-> what, detail |-> text]

MissingColumnError == "Missing required column(s): "
NoAssignmentColumnsError == "No assignment columns detected."

\* line 46
Required(c) ==
    {c.first_name_col, c.last_name_col, c.group_col, c.email_col}

\* line 47
Missing(c, columns) == Required(c) \ Range(columns)

\* variant of line 49 that reports the first missing column alone
MissingMessage_first(missing) == Sorted(missing)[1]

\* line 49: ', '.join(sorted(missing))
MissingMessage(missing) == Join(Sorted(missing), <<",", " ">>)

\* variant of line 51 that counts column positions from 1
ScoreColumns_fromOne(columns, start) ==
    SubSeq(columns, IF start = 0 THEN 1 ELSE start, Len(columns))

\* line 51: df.columns[scores_start_index:], scores_start_index >= 0
ScoreColumns(columns, start) == SubSeq(columns, start + 1, Len(columns))

\* variant of line 72 that counts a blank cell as a miss
IsMiss_blank(val) == ~notna(val) \/ EqZero(val)

\* line 72
IsMiss(val) == notna(val) /\ EqZero(val)

\* lines 67-73: the inner loop over score_columns
RECURSIVE MissedLoop(_, _, _)
MissedLoop(row, cols, missed) ==
    IF cols = <<>> THEN missed
    ELSE MissedLoop(row, Tail(cols),
                    IF IsMiss(row[Head(cols)]) THEN Append(missed, Head(cols))
                    ELSE missed)

\* lines 60-62
NameOf(row, c) ==
    LET first == Strip(Str(row[c.first_name_col]))
        last == Strip(Str(row[c.last_name_col]))
    IN  Strip(first \o <<" ">> \o last)

\* variant of line 76 that keeps every row
KeepRow_always(missed) == TRUE

\* line 76: if missed
KeepRow(missed) == missed # <<>>

\* lines 59-84: the loop over df.iterrows()
RECURSIVE RowLoop(_, _, _, _)
RowLoop(rows, c, score_columns, results) ==
    IF rows = <<>> THEN results
    ELSE LET row == Head(rows)
             missed == MissedLoop(row, score_columns, <<>>)
             rec == [ name |-> NameOf(row, c),
                      group |-> row[c.group_col],
                      email |-> Strip(Str(row[c.email_col])),
                      missed |-> missed ]
         IN  RowLoop(Tail(rows), c, score_columns,
                     IF KeepRow(missed) THEN Append(results, rec) ELSE results)

NotCalled == [ok |-> FALSE, records |-> <<>>, error |-> "not called", detail |-> <<>>]

\* variant of line 57 in which the list outlives the call
NewResults_kept == previous.records

\* line 57: results = [], a fresh list in every call
NewResults == <<>>

\* lines 46-86
generate_missed_homework_report(d, c) ==
    LET missing == Missing(c, d.columns)
        score_columns == ScoreColumns(d.columns, c.scores_start_index)
    IN  IF missing # {} THEN Raised(MissingColumnError, MissingMessage(missing))
        ELSE IF Len(score_columns) = 0
             THEN Raised(NoAssignmentColumnsError, Digits(c.scores_start_index))
             ELSE Returned(RowLoop(d.rows, c, score_columns, NewResults))

(***************************************************************************)
(* build_mail_merge_dataframe (lines 7-21).                                *)
(***************************************************************************)
\* lines 8-19; r["name"].split()[0] raises IndexError when name has no token
NotBuilt == [ok |-> FALSE, rows |-> <<>>, error |-> "not called"]

RECURSIVE MailRows(_, _)
MailRows(recs, rows) ==
    IF recs = <<>> THEN [ok |-> TRUE, rows |-> rows, error |-> ""]
    ELSE LET r == Head(recs)
             tokens == Split(r.name)
         IN  IF tokens = <<>> THEN [ok |-> FALSE, rows |-> <<>>, error |-> "IndexError"]
             ELSE MailRows(Tail(recs),
                           Append(rows, [ FirstName |-> tokens[1],
                                          Email |-> r.email,
                                          MissedHomeworks |-> Join(r.missed, <<"\n">>) ]))

build_mail_merge_dataframe(recs) == MailRows(recs, <<>>)

(***************************************************************************)
(* build_word_report_bytes (lines 89-109): the blocks of the document.     *)
(***************************************************************************)
Block(style, text) == [style |-> style, text |-> text]

NoneFoundText ==
    << "N", "o", " ", "s", "t", "u", "d", "e", "n", "t", "s", " ", "w", "i", "t",
       "h", " ", "m", "i", "s", "s", "e", "d", " ", "h", "o", "m", "e", "w", "o",
       "r", "k", " ", "w", "e", "r", "e", " ", "f", "o", "u", "n", "d", "." >>

\* lines 104-105
Bullets(missed) == [i \in 1..Len(missed) |-> Block("ListBullet", <<" ">> \o missed[i])]

\* variant of lines 101-105 that ends each section with an empty paragraph
StudentBlocks_spaced(r) ==
    << Block("Heading 1",
             r.name \o <<",", " ">> \o Str(r.group) \o <<",", " ">> \o r.email) >>
    \o Bullets(r.missed) \o << Block("Normal", <<>>) >>

\* lines 101-105
StudentBlocks(r) ==
    << Block("Heading 1",
             r.name \o <<",", " ">> \o Str(r.group) \o <<",", " ">> \o r.email) >>
    \o Bullets(r.missed)

\* lines 99-105
RECURSIVE RecordBlocks(_)
RecordBlocks(recs) ==
    IF recs = <<>> THEN <<>>
    ELSE StudentBlocks(Head(recs)) \o RecordBlocks(Tail(recs))

\* lines 90-109
build_word_report_bytes(recs, heading) ==
    << Block("Title", heading) >> \o
    (IF recs = <<>> THEN << Block("Normal", NoneFoundText) >> ELSE RecordBlocks(recs))

(***************************************************************************)
(* mail_df.to_csv(index=False, quoting=csv.QUOTE_ALL).encode("utf-8-sig")  *)
(* (lines 217-220).                                                        *)
(***************************************************************************)
BOM == "BOM"

CsvHeader ==
    << <<"F", "i", "r", "s", "t", "N", "a", "m", "e">>,
       <<"E", "m", "a", "i", "l">>,
       << "M", "i", "s", "s", "e", "d", "H", "o", "m", "e", "w", "o", "r", "k", "s" >> >>

\* a quote character inside a field is written twice
RECURSIVE DoubleQuotes(_)
DoubleQuotes(f) ==
    IF f = <<>> THEN <<>>
    ELSE (IF Head(f) = "\"" THEN <<"\"", "\"">> ELSE <<Head(f)>>) \o DoubleQuotes(Tail(f))

\* variant of line 219 with the default quoting, csv.QUOTE_MINIMAL
QuoteField_minimal(f) ==
    IF \E i \in 1..Len(f) : f[i] \in {"\"", ",", "\n", "\r"}
    THEN <<"\"">> \o DoubleQuotes(f) \o <<"\"">>
    ELSE f

\* line 219: csv.QUOTE_ALL
QuoteField(f) == <<"\"">> \o DoubleQuotes(f) \o <<"\"">>

CsvLine(fields) ==
    Join([i \in 1..Len(fields) |-> QuoteField(fields[i])], <<",">>) \o <<"\n">>

RECURSIVE CsvLines(_)
CsvLines(rows) ==
    IF rows = <<>> THEN <<>>
    ELSE CsvLine(<<Head(rows).FirstName, Head(rows).Email, Head(rows).MissedHomeworks>>)
         \o CsvLines(Tail(rows))

\* line 217
to_csv(rows) == CsvLine(CsvHeader) \o CsvLines(rows)

\* line 220
encode_utf8_sig(text) == <<BOM>> \o text

(***************************************************************************)
(* The uploads and sidebar settings tried.                                 *)
(***************************************************************************)
Ann == <<"A", "n", "n">>
Lee == <<"L", "e", "e">>
Mail == <<"a", "@", "e">>

Malformed == [valid |-> FALSE, columns |-> <<>>, rows |-> <<>>]
Spreadsheet(columns, rows) == [valid |-> TRUE, columns |-> columns, rows |-> rows]
NoData == [columns |-> <<>>, rows |-> <<>>]

AllCols == IdentityCols \o HomeworkCols

\* a row as pandas holds it: a value for every column of the DataFrame
RowOf(columns, first, last, group, email, hw) ==
    [ c \in Range(columns) |->
        CASE c = FirstNameCol -> first
          [] c = LastNameCol -> last
          [] c = GroupCol -> group
          [] c = EmailCol -> email
          [] OTHER -> hw[c] ]

\* the sequences over S of length lo..hi
SeqsOf(S, lo, hi) == UNION {[1..n -> S] : n \in lo..hi}

\* a gradebook of full width whose score cells vary: blank, 0 and a nonzero score
ScoreVals == {NaN, Num(0), Num(5)}

ScoreUploads ==
    { Spreadsheet(AllCols,
                  [i \in 1..Len(scores) |->
                      RowOf(AllCols, Txt(Ann), Txt(Lee), Num(i), Txt(Mail), scores[i])]) :
        scores \in SeqsOf([Range(HomeworkCols) -> ScoreVals], 0, MaxRows) }

\* a gradebook whose identity cells vary: blank, padded, whitespace-only, two words,
\* text holding the CSV's special characters; every row has two misses
FirstVals == {NaN, Txt(Ann), Txt(<<" ">>), Txt(<<" ", "A", " ", "B", " ">>)}
LastVals == {NaN, Txt(<<"L", "e", "e", " ">>), Txt(<<" ">>)}
GroupVals == {Num(1), Txt(<<"A">>)}
EmailVals == {Txt(<<" ", "a", "@", "e", " ">>), Txt(<<"a", "\"", ",", "e">>)}
Titles == {<<" ">>, <<" ", "R", " ">>}

NameRows ==
    { RowOf(AllCols, f, l, g, e, [c \in Range(HomeworkCols) |-> Num(0)]) :
        f \in FirstVals, l \in LastVals, g \in GroupVals, e \in EmailVals }

NameUploads == {Spreadsheet(AllCols, rows) : rows \in SeqsOf(NameRows, 1, MaxNameRows)}

\* gradebooks that lack identity or homework columns, with any start index
ColumnLists ==
    { SelectSeq(IdentityCols, LAMBDA c : c \in keep) \o SubSeq(HomeworkCols, 1, h) :
        keep \in SUBSET Range(IdentityCols), h \in 0..Len(HomeworkCols) }

ColumnRows(columns) ==
    { RowOf(columns, Txt(Ann), Txt(Lee), g, Txt(Mail), [c \in Range(HomeworkCols) |-> hw[c]]) :
        g \in {Num(0), Num(1)},
        hw \in [Range(HomeworkCols) -> {Num(0), Txt(<<"A">>)}] }

ColumnUploads ==
    UNION { {Spreadsheet(columns, rows) : rows \in SeqsOf(ColumnRows(columns), 0, 1)} :
              columns \in ColumnLists }

Init ==
    /\ \/ uploaded = Malformed /\ cfg = Config(4) /\ title = DefaultTitle
       \/ uploaded \in ScoreUploads /\ cfg = Config(4) /\ title = DefaultTitle
       \/ uploaded \in NameUploads /\ cfg = Config(4) /\ title \in Titles
       \/ uploaded \in ColumnUploads /\ cfg \in {Config(s) : s \in 0..MaxStart}
          /\ title = DefaultTitle
    /\ pc = "read"
    /\ run = 1
    /\ df = NoData
    /\ outcome = NotCalled
    /\ previous = NotCalled
    /\ messages = <<>>
    /\ docx = <<>>
    /\ mail = NotBuilt
    /\ csv = <<>>

(***************************************************************************)
(* main() (lines 112-228), one action per call it makes.                   *)
(***************************************************************************)
CouldNotRead == "Could not read Excel file: "

\* lines 146-150: df = pd.read_excel(uploaded)
ReadExcel ==
    /\ pc = "read"
    /\ IF uploaded.valid
       THEN /\ df' = [columns |-> uploaded.columns, rows |-> uploaded.rows]
            /\ pc' = "extract"
            /\ UNCHANGED messages
       ELSE /\ messages' = Append(messages, [error |-> CouldNotRead, detail |-> <<>>])
            /\ pc' = "done"
            /\ UNCHANGED df
    /\ UNCHANGED <<uploaded, cfg, title, run, outcome, previous, docx, mail, csv>>

\* lines 155-166: records = generate_missed_homework_report(...)
Generate ==
    /\ pc = "extract"
    /\ outcome' = generate_missed_homework_report(df, cfg)
    /\ IF outcome'.ok
       THEN pc' = "report" /\ UNCHANGED messages
       ELSE /\ messages' = Append(messages, [error |-> outcome'.error,
                                              detail |-> outcome'.detail])
            /\ pc' = "done"
    /\ UNCHANGED <<uploaded, cfg, title, run, df, previous, docx, mail, csv>>

\* lines 173, 205: title.strip() or "Missed Homework Report"
ReportTitle(t) == IF Strip(t) = <<>> THEN DefaultTitle ELSE Strip(t)

\* variant of line 170 that never takes the early return
NoRecords_never(recs) == FALSE

\* line 170: if not records
NoRecords(recs) == recs = <<>>

\* lines 170-212: the Word report, in both branches; the first one returns
WordReport ==
    /\ pc = "report"
    /\ docx' = build_word_report_bytes(outcome.records, ReportTitle(title))
    /\ pc' = IF NoRecords(outcome.records) THEN "done" ELSE "mailmerge"
    /\ UNCHANGED <<uploaded, cfg, title, run, df, outcome, previous, messages, mail, csv>>

\* lines 214-215: mail_df = build_mail_merge_dataframe(records); an IndexError
\* is not caught and ends the run
MailMerge ==
    /\ pc = "mailmerge"
    /\ mail' = build_mail_merge_dataframe(outcome.records)
    /\ pc' = IF mail'.ok THEN "csv" ELSE "done"
    /\ UNCHANGED <<uploaded, cfg, title, run, df, outcome, previous, messages, docx, csv>>

\* lines 217-228
CsvExport ==
    /\ pc = "csv"
    /\ csv' = encode_utf8_sig(to_csv(mail.rows))
    /\ pc' = "done"
    /\ UNCHANGED <<uploaded, cfg, title, run, df, outcome, previous, messages, docx, mail>>

\* Streamlit runs main() again from the top on the same upload and settings
Rerun ==
    /\ pc = "done"
    /\ run < MaxRuns
    /\ run' = run + 1
    /\ previous' = outcome
    /\ pc' = "read"
    /\ df' = NoData
    /\ outcome' = NotCalled
    /\ messages' = <<>>
    /\ docx' = <<>>
    /\ mail' = NotBuilt
    /\ csv' = <<>>
    /\ UNCHANGED <<uploaded, cfg, title>>

Next == ReadExcel \/ Generate \/ WordReport \/ MailMerge \/ CsvExport \/ Rerun

Spec == Init /\ [][Next]_vars

(***************************************************************************)
(* Vocabulary of the properties.                                           *)
(***************************************************************************)
Called == outcome # NotCalled
Records == outcome.records
Columns == df.columns
Start == cfg.scores_start_index

\* a cell that is present (not the missing marker) and numerically equal to zero
PresentZero(v) == v.t = "num" /\ v.n = 0
Blank(v) == v.t = "nan"

\* the positions (from 1) of the score columns in which row i has a miss
MissPositions(i) ==
    {j \in (Start + 1)..Len(Columns) : PresentZero(df.rows[i][Columns[j]])}

\* the rows that have at least one miss
Qualifying == {i \in 1..Len(df.rows) : MissPositions(i) # {}}

\* the k-th smallest element of a set of numbers
Nth(S, k) == CHOOSE x \in S : Cardinality({y \in S : y < x}) = k - 1

\* the row the k-th record comes from, when there is one record per qualifying row
RowOfRecord(k) == Nth(Qualifying, k)

Absent == {c \in Required(cfg) : c \notin Range(Columns)}

Contains(text, part) ==
    \E i \in 1..(Len(text) - Len(part) + 1) : SubSeq(text, i, i + Len(part) - 1) = part

\* C1: every emitted record's missed is exactly the names of the score columns
\* (position >= scoresStartIndex), left to right, whose value in that row is
\* present and numerically zero; blank, nonzero and text cells are never in it.
C1_MissedExact ==
    (Called /\ outcome.ok) =>
        /\ Len(Records) = Cardinality(Qualifying)
        /\ \A k \in 1..Len(Records) :
              LET M == MissPositions(RowOfRecord(k))
                  missed == Records[k].missed
              IN  /\ Len(missed) = Cardinality(M)
                  /\ \A a \in 1..Len(missed) : missed[a] = Columns[Nth(M, a)]

\* a record of a row with a blank HW1 and a 0 in HW2 lists HW2 alone, and a
\* record of a row with two zeros lists HW1 then HW2
C1_Witness ==
    /\ Called /\ outcome.ok /\ Len(df.rows) = 2 /\ Len(Records) = 2
    /\ Columns = AllCols /\ Start = 4
    /\ Blank(df.rows[1][HW1]) /\ PresentZero(df.rows[1][HW2])
    /\ Records[1].missed = <<HW2>>
    /\ Records[2].missed = <<HW1, HW2>>

\* C2: the returned sequence has exactly one record per row with at least one
\* miss, in row order, and none for any other row; so every record has a
\* non-empty missed and a dataset without a 0 score yields the empty sequence.
C2_OneRecordPerMissingRow ==
    (Called /\ outcome.ok) =>
        /\ Len(Records) = Cardinality(Qualifying)
        /\ \A k \in 1..Len(Records) :
              LET row == df.rows[RowOfRecord(k)]
              IN  /\ Records[k].group = row[cfg.group_col]
                  /\ Records[k].email = Strip(Str(row[cfg.email_col]))
                  /\ Records[k].missed # <<>>
        /\ (Qualifying = {} => Records = <<>>)

\* rows R1 (two misses), R2 (none), R3 (one miss) give [record(R1), record(R3)]
C2_Witness ==
    /\ Called /\ outcome.ok /\ Len(df.rows) = 3 /\ Start = 4
    /\ Cardinality(MissPositions(1)) = 2
    /\ MissPositions(2) = {}
    /\ Cardinality(MissPositions(3)) = 1
    /\ Len(Records) = 2
    /\ Records[1].group = Num(1)
    /\ Records[2].group = Num(3)

\* C3: when an identity column is absent from the dataset the call fails with
\* the missing-column error, whose message names every absent identity column
\* and no present one, and no record is produced, whatever scoresStartIndex is.
C3_MissingColumnsAllNamed ==
    (Called /\ Absent # {}) =>
        /\ ~outcome.ok
        /\ outcome.error = MissingColumnError
        /\ Records = <<>>
        /\ \A c \in Required(cfg) : (c \in Absent) <=> Contains(outcome.detail, c)

\* two identity columns are missing at once, one is present, the dataset has a
\* row with a miss, and the start index is beyond the columns
C3_Witness ==
    /\ Called /\ ~outcome.ok
    /\ Absent = {FirstNameCol, EmailCol}
    /\ HW1 \in Range(Columns)
    /\ Len(df.rows) = 1 /\ PresentZero(df.rows[1][HW1])
    /\ Start > Len(Columns)
    /\ Contains(outcome.detail, FirstNameCol) /\ Contains(outcome.detail, EmailCol)

\* C4: with all identity columns present and scoresStartIndex >= 0, the call
\* fails with the no-assignment-columns error, producing no record, exactly
\* when no column lies at or after scoresStartIndex; otherwise it returns.
C4_NoAssignmentColumns ==
    (Called /\ Absent = {}) =>
        IF Start >= Len(Columns)
        THEN ~outcome.ok /\ outcome.error = NoAssignmentColumnsError /\ Records = <<>>
        ELSE outcome.ok

\* scoresStartIndex equals the column count of a dataset whose row has a miss
C4_Witness ==
    /\ Called /\ Absent = {} /\ Start = Len(Columns)
    /\ HW1 \in Range(Columns)
    /\ Len(df.rows) = 1 /\ PresentZero(df.rows[1][HW1])
    /\ outcome.error = NoAssignmentColumnsError

\* the token a name cell contributes: empty when the cell is absent or blank
NameToken(v) == IF Blank(v) THEN <<>> ELSE Strip(Str(v))

\* C5: every emitted record's name is trim(trim(first) + " " + trim(last)),
\* where an absent or blank name cell contributes the empty token.
C5_BlankNameCellIsEmptyToken ==
    (Called /\ outcome.ok /\ Len(Records) = Cardinality(Qualifying)) =>
        \A k \in 1..Len(Records) :
            LET row == df.rows[RowOfRecord(k)]
            IN  Records[k].name =
                    Strip(NameToken(row[cfg.first_name_col]) \o <<" ">>
                          \o NameToken(row[cfg.last_name_col]))

MailBuilt == mail # NotBuilt

\* C6: for every record sequence the extractor can emit, the projector completes
\* without error and returns one row per record, in order: firstName the first
\* whitespace-delimited token of name, the record's email, missed joined by "\n".
C6_MailMergeTotal ==
    MailBuilt =>
        /\ mail.ok
        /\ Len(mail.rows) = Len(Records)
        /\ \A k \in 1..Len(mail.rows) :
              /\ Split(Records[k].name) # <<>>
              /\ mail.rows[k].FirstName = Split(Records[k].name)[1]
              /\ mail.rows[k].Email = Records[k].email
              /\ mail.rows[k].MissedHomeworks = Join(Records[k].missed, <<"\n">>)

DocBuilt == docx # <<>>

\* the number of blocks that precede the section of the k-th record
RECURSIVE BlocksBefore(_)
BlocksBefore(k) ==
    IF k = 1 THEN 1 ELSE BlocksBefore(k - 1) + 1 + Len(Records[k - 1].missed)

\* C7: the document is a title heading equal to the title; then, for no records,
\* one informational paragraph and nothing else; otherwise, per record in order,
\* a heading "{name}, {group}, {email}" followed by one bullet " {assignment}"
\* per entry of missed, in order, and nothing else.
C7_DocumentBlocks ==
    DocBuilt =>
        /\ docx[1] = Block("Title", ReportTitle(title))
        /\ IF Records = <<>>
           THEN /\ Len(docx) = 2
                /\ docx[2] = Block("Normal", NoneFoundText)
           ELSE /\ Len(docx) = BlocksBefore(Len(Records) + 1)
                /\ \A k \in 1..Len(Records) :
                      LET at == BlocksBefore(k) + 1
                          r == Records[k]
                      IN  /\ docx[at] =
                                Block("Heading 1",
                                      r.name \o <<",", " ">> \o Str(r.group)
                                             \o <<",", " ">> \o r.email)
                          /\ \A a \in 1..Len(r.missed) :
                                docx[at + a] = Block("ListBullet", <<" ">> \o r.missed[a])

\* a report of two students, the first with one miss and the second with two
C7_Witness ==
    /\ DocBuilt /\ Len(Records) = 2
    /\ Len(Records[1].missed) = 1 /\ Len(Records[2].missed) = 2
    /\ Len(docx) = 6
    /\ docx[2].style = "Heading 1" /\ docx[4].style = "Heading 1"
    /\ docx[6] = Block("ListBullet", <<" ", "H", "W", "2">>)

CsvBuilt == csv # <<>>

\* bytes.decode("utf-8-sig"): the text without its byte-order mark
decode_utf8_sig(bytes) ==
    IF bytes # <<>> /\ Head(bytes) = BOM THEN Tail(bytes) ELSE bytes

\* a standard CSV reader (comma-delimited, double-quote quoting with doubled
\* quotes, "\n" ending a record outside quotes).  FieldRead reads the field that
\* starts at position i: its text, whether it was written quoted, the position
\* after its terminator, and the terminator
RECURSIVE FieldRead(_, _, _, _, _)
FieldRead(s, i, st, field, quoted) ==
    LET end(last) == [text |-> field, quoted |-> quoted, next |-> i + 1, last |-> last]
    IN  IF i > Len(s) THEN end("eof")
        ELSE IF st = "quoted"
             THEN IF s[i] = "\"" THEN FieldRead(s, i + 1, "quote", field, quoted)
                  ELSE FieldRead(s, i + 1, "quoted", Append(field, s[i]), quoted)
        ELSE IF st = "quote" /\ s[i] = "\""
             THEN FieldRead(s, i + 1, "quoted", Append(field, s[i]), quoted)
        ELSE IF s[i] \in {",", "\n"} THEN end(s[i])
        ELSE IF st = "field" /\ s[i] = "\"" THEN FieldRead(s, i + 1, "quoted", field, TRUE)
        ELSE FieldRead(s, i + 1, "plain", Append(field, s[i]), quoted)

\* the fields of the record that starts at position i
RECURSIVE RecordRead(_, _, _)
RecordRead(s, i, row) ==
    LET f == FieldRead(s, i, "field", <<>>, FALSE)
        fields == Append(row, [text |-> f.text, quoted |-> f.quoted])
    IN  IF f.last = "," THEN RecordRead(s, f.next, fields)
        ELSE [fields |-> fields, next |-> f.next]

\* the records from position i on; an empty line is an empty record
RECURSIVE RecordsRead(_, _, _)
RecordsRead(s, i, rows) ==
    IF i > Len(s) THEN rows
    ELSE IF s[i] = "\n" THEN RecordsRead(s, i + 1, Append(rows, <<>>))
    ELSE LET r == RecordRead(s, i, <<>>)
         IN  RecordsRead(s, r.next, Append(rows, r.fields))

CsvRecords(text) == RecordsRead(text, 1, <<>>)

Texts(record) == [i \in 1..Len(record) |-> record[i].text]

\* C8: every field of the CSV text is quoted, and reading it back gives the
\* header row and then one row per mail-merge row, in order, whose three fields
\* equal firstName, email and missedHomeworks character for character.
C8_CsvRoundTrip ==
    CsvBuilt =>
        LET read == CsvRecords(decode_utf8_sig(csv))
        IN  /\ Len(read) = Len(mail.rows) + 1
            /\ \A i \in 1..Len(read) : \A j \in 1..Len(read[i]) : read[i][j].quoted
            /\ Texts(read[1]) = CsvHeader
            /\ \A k \in 1..Len(mail.rows) :
                  Texts(read[k + 1]) =
                      << mail.rows[k].FirstName, mail.rows[k].Email,
                         mail.rows[k].MissedHomeworks >>

\* a row whose missedHomeworks is "HW1\nHW2" and whose email holds a quote and a comma
C8_Witness ==
    /\ CsvBuilt /\ Len(mail.rows) >= 1
    /\ mail.rows[1].MissedHomeworks = <<"H", "W", "1", "\n", "H", "W", "2">>
    /\ mail.rows[1].Email = <<"a", "\"", ",", "e">>
    /\ Len(CsvRecords(decode_utf8_sig(csv))) = Len(mail.rows) + 1

Finished == pc = "done"
DecodeFailed == ~uploaded.valid
ValidationFailed == Called /\ ~outcome.ok

====
